---- MODULE Spec2Model ----
(***************************************************************************)
(* Status resolution and cache-aside pipeline of ping-server               *)
(* (src/src/status.go): GetJavaStatus, GetBedrockStatus, GetServerIcon,    *)
(* FetchJavaStatus and FetchBedrockStatus, run by concurrent request       *)
(* handlers against one shared cache store and the mcutil query clients.   *)
(*                                                                         *)
(* Conventions.  A Go pointer or a Go slice that may be nil is an          *)
(* optional: None (nil) or Some(x).  A Go string whose characters the code *)
(* inspects (host in the cache key, the favicon) is a sequence of          *)
(* one-character strings; any other string is an atomic TLA+ string.       *)
(* A JSON text is the sequence of its tokens' structure: JObj(pairs) with  *)
(* the keys in encoding order, JArr, JStr, JNum, JBool, JNull.             *)
(*                                                                         *)
(* Specifications.  Spec: two handlers, one address, the store's clock.    *)
(* SpecFetch: one call on a cold cache, over every shape of upstream       *)
(* answer.  SpecKeys: one handler, several addresses whose keys could be   *)
(* confused.  LiveSpec: one handler and the clock, every collaborator call *)
(* returning.                                                              *)
(***************************************************************************)
EXTENDS Integers, Sequences, FiniteSets, TLC

VARIABLES
    cache,           \* the cache store: key -> [value, ttl]
    frame,           \* handler -> the call it is running, or ran last
    started,         \* the number of calls started so far
    blockedServers,  \* the block list of the address policy
    returned,        \* key -> what the latest fresh resolution of the key
                     \* returned, while the entry it stored has not expired
    owner,           \* key -> the (operation, host, port) of the call that
                     \* stored the entry now under the key
    offline          \* key -> the record the latest call to store under the
                     \* key stored, when every query of that call had failed

vars == <<cache, frame, started, blockedServers, returned, owner, offline>>

---------------------------------------------------------------------------
(* Optionals: nil pointers and nil slices.                                 *)

None == <<>>

Some(x) == <<x>>

Get(o) == o[1]

---------------------------------------------------------------------------
(* Strings as character sequences.                                         *)

HasPrefix(s, prefix) ==
    /\ Len(s) >= Len(prefix)
    /\ SubSeq(s, 1, Len(prefix)) = prefix

TrimPrefix(s, prefix) ==
    IF HasPrefix(s, prefix) THEN SubSeq(s, Len(prefix) + 1, Len(s)) ELSE s

Digits == <<"0", "1", "2", "3", "4", "5", "6", "7", "8", "9">>

RECURSIVE FormatUint(_)
\* fmt's %d of an unsigned integer: its decimal digits, no sign, no padding.
FormatUint(n) ==
    IF n < 10 THEN <<Digits[n + 1]>>
    ELSE FormatUint(n \div 10) \o <<Digits[(n % 10) + 1]>>

---------------------------------------------------------------------------
(* encoding/base64, StdEncoding.DecodeString: the padded standard          *)
(* alphabet, four characters to three bytes, '=' only to fill the last     *)
(* quantum.                                                                *)

encodeStd ==
    <<"A", "B", "C", "D", "E", "F", "G", "H", "I", "J", "K", "L", "M",
      "N", "O", "P", "Q", "R", "S", "T", "U", "V", "W", "X", "Y", "Z",
      "a", "b", "c", "d", "e", "f", "g", "h", "i", "j", "k", "l", "m",
      "n", "o", "p", "q", "r", "s", "t", "u", "v", "w", "x", "y", "z",
      "0", "1", "2", "3", "4", "5", "6", "7", "8", "9", "+", "/">>

InAlphabet(ch) == \E i \in 1..64 : encodeStd[i] = ch

DecodeMap(ch) == (CHOOSE i \in 1..64 : encodeStd[i] = ch) - 1

\* One quantum of four characters; last tells whether padding is allowed.
DecodeQuantum(q, last) ==
    IF ~(InAlphabet(q[1]) /\ InAlphabet(q[2])) THEN [err |-> TRUE, data |-> <<>>]
    ELSE IF q[3] = "=" THEN
        IF last /\ q[4] = "="
        THEN [err |-> FALSE,
              data |-> <<(DecodeMap(q[1]) * 4 + DecodeMap(q[2]) \div 16) % 256>>]
        ELSE [err |-> TRUE, data |-> <<>>]
    ELSE IF ~InAlphabet(q[3]) THEN [err |-> TRUE, data |-> <<>>]
    ELSE IF q[4] = "=" THEN
        IF last
        THEN LET n == DecodeMap(q[1]) * 4096 + DecodeMap(q[2]) * 64 + DecodeMap(q[3])
             IN  [err |-> FALSE, data |-> <<n \div 1024, (n \div 4) % 256>>]
        ELSE [err |-> TRUE, data |-> <<>>]
    ELSE IF ~InAlphabet(q[4]) THEN [err |-> TRUE, data |-> <<>>]
    ELSE LET n == DecodeMap(q[1]) * 262144 + DecodeMap(q[2]) * 4096
                  + DecodeMap(q[3]) * 64 + DecodeMap(q[4])
         IN  [err |-> FALSE, data |-> <<n \div 65536, (n \div 256) % 256, n % 256>>]

RECURSIVE DecodeQuanta(_)
DecodeQuanta(s) ==
    IF Len(s) = 0 THEN [err |-> FALSE, data |-> <<>>]
    ELSE LET head == DecodeQuantum(SubSeq(s, 1, 4), Len(s) = 4)
             rest == DecodeQuanta(SubSeq(s, 5, Len(s)))
         IN  IF head.err \/ rest.err THEN [err |-> TRUE, data |-> <<>>]
             ELSE [err |-> FALSE, data |-> head.data \o rest.data]

DecodeString(s) ==
    IF Len(s) % 4 # 0 THEN [err |-> TRUE, data |-> <<>>] ELSE DecodeQuanta(s)

---------------------------------------------------------------------------
(* encoding/json.                                                          *)

JNull == <<"null">>

JBool(b) == <<"bool", b>>

JNum(n) == <<"num", n>>

JStr(s) == <<"str", s>>

JArr(elems) == <<"arr", elems>>

JObj(pairs) == <<"obj", pairs>>

\* The value of key k in a JSON object, None when the object has no such key.
JField(obj, k) ==
    LET pairs == obj[2]
        hits == {i \in 1..Len(pairs) : pairs[i][1] = k}
    IN  IF hits = {} THEN None ELSE Some(pairs[CHOOSE i \in hits : TRUE][2])

JKeys(obj) == [i \in 1..Len(obj[2]) |-> obj[2][i][1]]

---------------------------------------------------------------------------
(* json.Marshal of the three response types, field by field in declaration *)
(* order, the embedded StatusResponse promoted to the top level.  None of  *)
(* the field types can make the encoder fail, so err is always FALSE; the  *)
(* callers test it all the same.                                           *)

MarshalStatusFields(v) ==
    << <<"online", JBool(v.Online)>>,
       <<"host", JStr(v.Host)>>,
       <<"port", JNum(v.Port)>>,
       <<"eula_blocked", JBool(v.EULABlocked)>> >>

MarshalMOTD(m) ==
    JObj(<< <<"raw", JStr(m.Raw)>>, <<"clean", JStr(m.Clean)>>, <<"html", JStr(m.HTML)>> >>)

MarshalJavaVersion(v) ==
    JObj(<< <<"name_raw", JStr(v.NameRaw)>>,
            <<"name_clean", JStr(v.NameClean)>>,
            <<"name_html", JStr(v.NameHTML)>>,
            <<"protocol", JNum(v.Protocol)>> >>)

MarshalPlayer(p) ==
    JObj(<< <<"uuid", JStr(p.UUID)>>,
            <<"name_raw", JStr(p.NameRaw)>>,
            <<"name_clean", JStr(p.NameClean)>>,
            <<"name_html", JStr(p.NameHTML)>> >>)

MarshalMod(m) ==
    JObj(<< <<"name", JStr(m.Name)>>, <<"version", JStr(m.Version)>> >>)

\* A nil slice encodes as null, a non-nil one as an array.
MarshalPlayerList(l) ==
    IF l = None THEN JNull
    ELSE JArr([i \in 1..Len(Get(l)) |-> MarshalPlayer(Get(l)[i])])

MarshalModList(l) ==
    IF l = None THEN JNull
    ELSE JArr([i \in 1..Len(Get(l)) |-> MarshalMod(Get(l)[i])])

MarshalOptStr(o) == IF o = None THEN JNull ELSE JStr(Get(o))

MarshalOptNum(o) == IF o = None THEN JNull ELSE JNum(Get(o))

MarshalJavaPlayers(p) ==
    JObj(<< <<"online", JNum(p.Online)>>,
            <<"max", JNum(p.Max)>>,
            <<"list", MarshalPlayerList(p.List)>> >>)

MarshalBedrockVersion(v) ==
    JObj(<< <<"name", MarshalOptStr(v.Name)>>, <<"protocol", MarshalOptNum(v.Protocol)>> >>)

MarshalBedrockPlayers(p) ==
    JObj(<< <<"online", MarshalOptNum(p.Online)>>, <<"max", MarshalOptNum(p.Max)>> >>)

MarshalStatusResponse(v) == JObj(MarshalStatusFields(v))

MarshalJavaStatusResponse(v) ==
    JObj(MarshalStatusFields(v.StatusResponse) \o
         << <<"version", IF v.Version = None THEN JNull ELSE MarshalJavaVersion(Get(v.Version))>>,
            <<"players", MarshalJavaPlayers(v.Players)>>,
            <<"motd", MarshalMOTD(v.MOTD)>>,
            <<"icon", MarshalOptStr(v.Icon)>>,
            <<"mods", MarshalModList(v.Mods)>> >>)

MarshalBedrockStatusResponse(v) ==
    JObj(MarshalStatusFields(v.StatusResponse) \o
         << <<"version", IF v.Version = None THEN JNull ELSE MarshalBedrockVersion(Get(v.Version))>>,
            <<"players", IF v.Players = None THEN JNull ELSE MarshalBedrockPlayers(Get(v.Players))>>,
            <<"motd", IF v.MOTD = None THEN JNull ELSE MarshalMOTD(Get(v.MOTD))>>,
            <<"gamemode", MarshalOptStr(v.Gamemode)>>,
            <<"server_id", MarshalOptStr(v.ServerID)>>,
            <<"edition", MarshalOptStr(v.Edition)>> >>)

\* json.Marshal of an interface{} value: by its dynamic type.
Marshal(v) ==
    [err |-> FALSE,
     data |-> CASE v.type = "StatusResponse" -> MarshalStatusResponse(v)
                [] v.type = "JavaStatusResponse" -> MarshalJavaStatusResponse(v)
                [] v.type = "BedrockStatusResponse" -> MarshalBedrockStatusResponse(v)]

---------------------------------------------------------------------------
(* The address policy.  blockedServers is the block list it consults.      *)

IsBlockedAddress(host) == host \in blockedServers

---------------------------------------------------------------------------
(* FetchJavaStatus and FetchBedrockStatus: the record built on each of     *)
(* their return paths, from the answer of the query client and the answer  *)
(* eulaBlocked of the address policy.                                      *)

StatusResponse(online, host, port, eulaBlocked) ==
    [Online |-> online, Host |-> host, Port |-> port, EULABlocked |-> eulaBlocked]

\* Mutation of Offline: the offline record never reports the block.
OfflineUnblocked(host, port, eulaBlocked) ==
    [type |-> "StatusResponse"] @@ StatusResponse(FALSE, host, port, FALSE)

\* Mutation of Offline: the offline record reports the server online.
OfflineOnline(host, port, eulaBlocked) ==
    [type |-> "StatusResponse"] @@ StatusResponse(TRUE, host, port, eulaBlocked)

\* Mutation of Offline: the offline record is a primary-family record with
\* its family fields left at their zero values.
OfflineAsJava(host, port, eulaBlocked) ==
    [type |-> "JavaStatusResponse",
     StatusResponse |-> StatusResponse(FALSE, host, port, eulaBlocked),
     Version |-> None,
     Players |-> [Online |-> 0, Max |-> 0, List |-> None],
     MOTD |-> [Raw |-> "", Clean |-> "", HTML |-> ""],
     Icon |-> None,
     Mods |-> None]

\* status.go 161-166 and 259-264: every query failed.
Offline(host, port, eulaBlocked) ==
    [type |-> "StatusResponse"] @@ StatusResponse(FALSE, host, port, eulaBlocked)

\* Mutation of JavaFromLegacy: the two lists are left nil.
JavaFromLegacyNilLists(host, port, statusLegacy, eulaBlocked) ==
    [type |-> "JavaStatusResponse",
     StatusResponse |-> StatusResponse(TRUE, host, port, eulaBlocked),
     Version |-> IF statusLegacy.Version # None
                 THEN Some([NameRaw |-> Get(statusLegacy.Version).NameRaw,
                            NameClean |-> Get(statusLegacy.Version).NameClean,
                            NameHTML |-> Get(statusLegacy.Version).NameHTML,
                            Protocol |-> Get(statusLegacy.Version).Protocol])
                 ELSE None,
     Players |-> [Online |-> statusLegacy.Players.Online,
                  Max |-> statusLegacy.Players.Max,
                  List |-> None],
     MOTD |-> [Raw |-> statusLegacy.MOTD.Raw,
               Clean |-> statusLegacy.MOTD.Clean,
               HTML |-> statusLegacy.MOTD.HTML],
     Icon |-> None,
     Mods |-> None]

\* status.go 169-200: the legacy answer.
JavaFromLegacy(host, port, statusLegacy, eulaBlocked) ==
    [type |-> "JavaStatusResponse",
     StatusResponse |-> StatusResponse(TRUE, host, port, eulaBlocked),
     Version |-> IF statusLegacy.Version # None
                 THEN Some([NameRaw |-> Get(statusLegacy.Version).NameRaw,
                            NameClean |-> Get(statusLegacy.Version).NameClean,
                            NameHTML |-> Get(statusLegacy.Version).NameHTML,
                            Protocol |-> Get(statusLegacy.Version).Protocol])
                 ELSE None,
     Players |-> [Online |-> statusLegacy.Players.Online,
                  Max |-> statusLegacy.Players.Max,
                  List |-> Some(<<>>)],
     MOTD |-> [Raw |-> statusLegacy.MOTD.Raw,
               Clean |-> statusLegacy.MOTD.Clean,
               HTML |-> statusLegacy.MOTD.HTML],
     Icon |-> None,
     Mods |-> Some(<<>>)]

\* status.go 203-214: playerList.
PlayerList(status) ==
    IF status.Players.Sample # None
    THEN [i \in 1..Len(Get(status.Players.Sample)) |->
            [UUID |-> Get(status.Players.Sample)[i].ID,
             NameRaw |-> Get(status.Players.Sample)[i].NameRaw,
             NameClean |-> Get(status.Players.Sample)[i].NameClean,
             NameHTML |-> Get(status.Players.Sample)[i].NameHTML]]
    ELSE <<>>

\* status.go 216-225: modList.
ModList(status) ==
    IF status.ModInfo # None
    THEN [i \in 1..Len(Get(status.ModInfo).Mods) |->
            [Name |-> Get(status.ModInfo).Mods[i].ID,
             Version |-> Get(status.ModInfo).Mods[i].Version]]
    ELSE <<>>

\* Mutation of JavaFromStatus: the lists are declared and not made, so they
\* stay nil when nothing is appended.
JavaFromStatusNilWhenEmpty(host, port, status, eulaBlocked) ==
    [type |-> "JavaStatusResponse",
     StatusResponse |-> StatusResponse(TRUE, host, port, eulaBlocked),
     Version |-> Some([NameRaw |-> status.Version.NameRaw,
                       NameClean |-> status.Version.NameClean,
                       NameHTML |-> status.Version.NameHTML,
                       Protocol |-> status.Version.Protocol]),
     Players |-> [Online |-> status.Players.Online,
                  Max |-> status.Players.Max,
                  List |-> IF PlayerList(status) = <<>> THEN None
                           ELSE Some(PlayerList(status))],
     MOTD |-> [Raw |-> status.MOTD.Raw,
               Clean |-> status.MOTD.Clean,
               HTML |-> status.MOTD.HTML],
     Icon |-> status.Favicon,
     Mods |-> IF ModList(status) = <<>> THEN None ELSE Some(ModList(status))]

\* status.go 203-252: the modern answer.
JavaFromStatus(host, port, status, eulaBlocked) ==
    [type |-> "JavaStatusResponse",
     StatusResponse |-> StatusResponse(TRUE, host, port, eulaBlocked),
     Version |-> Some([NameRaw |-> status.Version.NameRaw,
                       NameClean |-> status.Version.NameClean,
                       NameHTML |-> status.Version.NameHTML,
                       Protocol |-> status.Version.Protocol]),
     Players |-> [Online |-> status.Players.Online,
                  Max |-> status.Players.Max,
                  List |-> Some(PlayerList(status))],
     MOTD |-> [Raw |-> status.MOTD.Raw,
               Clean |-> status.MOTD.Clean,
               HTML |-> status.MOTD.HTML],
     Icon |-> status.Favicon,
     Mods |-> Some(ModList(status))]

\* Mutation of BedrockVersion: the container is allocated for the name alone.
BedrockVersionNameOnly(status) ==
    IF status.Version # None
    THEN Some([Name |-> status.Version, Protocol |-> status.ProtocolVersion])
    ELSE None

\* status.go 282-302: the lazily allocated version container.
BedrockVersion(status) ==
    LET afterName ==
            IF status.Version # None
            THEN Some([Name |-> status.Version, Protocol |-> None])
            ELSE None
    IN  IF status.ProtocolVersion # None
        THEN Some([(IF afterName = None THEN [Name |-> None, Protocol |-> None]
                    ELSE Get(afterName))
                   EXCEPT !.Protocol = status.ProtocolVersion])
        ELSE afterName

\* status.go 304-324: the lazily allocated players container.
BedrockPlayers(status) ==
    LET afterOnline ==
            IF status.OnlinePlayers # None
            THEN Some([Online |-> status.OnlinePlayers, Max |-> None])
            ELSE None
    IN  IF status.MaxPlayers # None
        THEN Some([(IF afterOnline = None THEN [Online |-> None, Max |-> None]
                    ELSE Get(afterOnline))
                   EXCEPT !.Max = status.MaxPlayers])
        ELSE afterOnline

\* status.go 267-334: the second family's answer.
BedrockFromStatus(host, port, status, eulaBlocked) ==
    [type |-> "BedrockStatusResponse",
     StatusResponse |-> StatusResponse(TRUE, host, port, eulaBlocked),
     Version |-> BedrockVersion(status),
     Players |-> BedrockPlayers(status),
     MOTD |-> IF status.MOTD # None
              THEN Some([Raw |-> Get(status.MOTD).Raw,
                         Clean |-> Get(status.MOTD).Clean,
                         HTML |-> Get(status.MOTD).HTML])
              ELSE None,
     Gamemode |-> status.Gamemode,
     ServerID |-> status.ServerID,
     Edition |-> status.Edition]

---------------------------------------------------------------------------
(* The inputs: addresses, and what the query clients may answer.           *)

\* The (host, port) pairs requests come with.
Addresses == { << <<"m", "c">>, 12 >> }

Hosts == {address[1] : address \in Addresses}

Ops == {"java", "bedrock", "icon"}

Handlers == {"h1", "h2"}

\* The number of resolution calls one run starts.
MaxCalls == 2

pngPrefix ==
    <<"d", "a", "t", "a", ":", "i", "m", "a", "g", "e", "/", "p", "n", "g", ";",
      "b", "a", "s", "e", "6", "4", ",">>

jpegPrefix ==
    <<"d", "a", "t", "a", ":", "i", "m", "a", "g", "e", "/", "j", "p", "e", "g", ";",
      "b", "a", "s", "e", "6", "4", ",">>

JavaRaw(favicon, sample, modInfo) ==
    [Version |-> [NameRaw |-> "§c1.20", NameClean |-> "1.20", NameHTML |-> "<i>1.20</i>",
                  Protocol |-> 763],
     Players |-> [Online |-> 5, Max |-> 20, Sample |-> sample],
     MOTD |-> [Raw |-> "§6Hi", Clean |-> "Hi", HTML |-> "<u>Hi</u>"],
     Favicon |-> favicon,
     ModInfo |-> modInfo]

\* What mcutil.Status may return on success.
StatusAnswers ==
    { JavaRaw(None, None, None),
      JavaRaw(Some(pngPrefix \o <<"Q", "U", "J", "D">>),
              Some(<< [ID |-> "u1", NameRaw |-> "§aAda", NameClean |-> "Ada",
                       NameHTML |-> "<b>Ada</b>"],
                      [ID |-> "u2", NameRaw |-> "Bob", NameClean |-> "Bob",
                       NameHTML |-> "Bob"] >>),
              Some([Type |-> "FML", Mods |-> << [ID |-> "forge", Version |-> "14.23"] >>])),
      JavaRaw(Some(pngPrefix \o <<"Q", "U", "!", "D">>), None, None) }

\* What mcutil.StatusLegacy may return on success.
StatusLegacyAnswers ==
    { [Version |-> v,
       Players |-> [Online |-> 3, Max |-> 10],
       MOTD |-> [Raw |-> "§7Old", Clean |-> "Old", HTML |-> "<s>Old</s>"]] :
      v \in { Some([NameRaw |-> "§e1.6", NameClean |-> "1.6", NameHTML |-> "<b>1.6</b>",
                    Protocol |-> 78]) } }

BedrockRaw(version, protocolVersion, onlinePlayers, maxPlayers, motd, gamemode) ==
    [Version |-> version, ProtocolVersion |-> protocolVersion,
     OnlinePlayers |-> onlinePlayers, MaxPlayers |-> maxPlayers,
     MOTD |-> motd, Gamemode |-> gamemode, ServerID |-> None, Edition |-> Some("MCPE")]

\* What mcutil.StatusBedrock may return on success.
StatusBedrockAnswers ==
    { BedrockRaw(None, None, None, None, None, None),
      BedrockRaw(Some("1.19"), Some(560), Some(7), Some(30),
                 Some([Raw |-> "§2Be", Clean |-> "Be", HTML |-> "<b>Be</b>"]), None) }

---------------------------------------------------------------------------
(* Configuration and embedded data.                                        *)

\* config.Cache.JavaCacheDuration, in ticks of the store's clock.
JavaCacheDuration == 1

\* config.Cache.BedrockCacheDuration.
BedrockCacheDuration == 1

\* config.Cache.IconCacheDuration.
IconCacheDuration == 2

\* The embedded "no icon" placeholder.
defaultIconBytes == Some(<<137, 80, 78, 71>>)

---------------------------------------------------------------------------
(* The cache store r: a map from key to value, each entry with its         *)
(* remaining time to live.                                                 *)

NoError == "nil"

\* What a lookup of key may report: (exists, value, ttl, err).
GetCache(key) ==
    (IF key \in DOMAIN cache
     THEN {[exists |-> TRUE, value |-> cache[key].value, ttl |-> cache[key].ttl, err |-> e] :
           e \in {NoError, "store: ttl failed"}}
     ELSE {[exists |-> FALSE, value |-> <<>>, ttl |-> 0, err |-> NoError]})
    \cup {[exists |-> FALSE, value |-> <<>>, ttl |-> 0, err |-> "store: read failed"]}

\* The store after a successful r.Set(key, value, ttl).
Set(key, value, ttl) ==
    [k \in DOMAIN cache \cup {key} |->
        IF k = key THEN [value |-> value, ttl |-> ttl] ELSE cache[k]]

\* The store one tick later: every entry is one tick older, and gone at zero.
Expire ==
    [k \in {j \in DOMAIN cache : cache[j].ttl > 1} |->
        [cache[k] EXCEPT !.ttl = @ - 1]]

---------------------------------------------------------------------------
(* The three operations.  frame[h] holds the call handler h is running:    *)
(* its arguments, its locals, where it stands (pc), what it returned (ret), *)
(* the log of the calls it made to its collaborators, and in raced the id  *)
(* of a call for the same key that had missed the cache and not yet stored *)
(* when this one stored (0 when there was none).                           *)

Idle ==
    [pc |-> "idle", id |-> 0, op |-> "none", host |-> <<>>, port |-> 0,
     cacheKey |-> <<>>, exists |-> FALSE, value |-> <<>>, ttl |-> 0, err |-> NoError,
     response |-> <<>>, ret |-> <<>>, log |-> <<>>, raced |-> 0]

Event(call, args, ok, result) ==
    [call |-> call, args |-> args, ok |-> ok, result |-> result]

\* Mutation of CacheKey: the key has no namespace.
CacheKeyNoNamespace(op, host, port) == host \o <<"-">> \o FormatUint(port)

\* Mutation of CacheKey: host and port are not separated.
CacheKeyNoSeparator(op, host, port) ==
    (CASE op = "java" -> <<"j", "a", "v", "a", ":">>
       [] op = "bedrock" -> <<"b", "e", "d", "r", "o", "c", "k", ":">>
       [] op = "icon" -> <<"i", "c", "o", "n", ":">>)
    \o host \o FormatUint(port)

\* status.go 81, 103, 125: fmt.Sprintf("<op>:%s-%d", host, port).
CacheKey(op, host, port) ==
    (CASE op = "java" -> <<"j", "a", "v", "a", ":">>
       [] op = "bedrock" -> <<"b", "e", "d", "r", "o", "c", "k", ":">>
       [] op = "icon" -> <<"i", "c", "o", "n", ":">>)
    \o host \o <<"-">> \o FormatUint(port)

\* status.go 95, 117, 147: the duration each operation stores with.
CacheDuration(op) ==
    CASE op = "java" -> JavaCacheDuration
      [] op = "bedrock" -> BedrockCacheDuration
      [] op = "icon" -> IconCacheDuration

\* Mutation of HitReturn: the hit path returns the zero value.
HitReturnNoValue(value, ttl, err) == [value |-> <<>>, ttl |-> Some(ttl), err |-> err]

\* status.go 86, 108, 130: the return of a cache hit.
HitReturn(value, ttl, err) == [value |-> value, ttl |-> Some(ttl), err |-> err]

\* Mutation of FreshReturn: a fresh result comes with a TTL.
FreshReturnWithTTL(response) == [value |-> response, ttl |-> Some(0), err |-> NoError]

\* Mutation of FreshReturn: the lookup's (empty) value is returned.
FreshReturnLookupValue(response) == [value |-> <<>>, ttl |-> None, err |-> NoError]

\* status.go 99, 121, 151: the return of a freshly computed result.
FreshReturn(response) == [value |-> response, ttl |-> None, err |-> NoError]

\* status.go 92, 96, 114, 118, 141, 148: the return of a failed call.
ErrorReturn(err) == [value |-> <<>>, ttl |-> None, err |-> err]

\* Mutation of AfterLookup: the hit is ignored and the server queried again.
AfterLookupRequery(op, exists, err) ==
    CASE op = "java" -> "Status"
      [] op = "bedrock" -> "StatusBedrock"
      [] op = "icon" -> "Status"

\* Mutation of AfterLookup: the primary family asks the legacy client first.
AfterLookupLegacyFirst(op, exists, err) ==
    IF exists THEN "done"
    ELSE CASE op = "java" -> "StatusLegacy"
           [] op = "bedrock" -> "StatusBedrock"
           [] op = "icon" -> "Status"

\* Mutation of AfterLookup: a lookup that failed is waited for, for ever.
AfterLookupHang(op, exists, err) ==
    IF exists THEN "done"
    ELSE IF err # NoError THEN "GetCache"
    ELSE CASE op = "java" -> "Status"
           [] op = "bedrock" -> "StatusBedrock"
           [] op = "icon" -> "Status"

\* status.go 85-89, 107-111, 129-135: where a call goes after its lookup.
AfterLookup(op, exists, err) ==
    IF exists THEN "done"
    ELSE CASE op = "java" -> "Status"
           [] op = "bedrock" -> "StatusBedrock"
           [] op = "icon" -> "Status"

\* Mutation of AfterSet: the error of r.Set is dropped.
AfterSetSwallow(response, ok) == FreshReturn(response)

\* status.go 95-99, 117-121, 147-151: the return after r.Set answered.
AfterSet(response, ok) ==
    IF ok THEN FreshReturn(response) ELSE ErrorReturn("store: write failed")

\* Mutation of ServerIcon: a failed query is returned as the call's error.
ServerIconQueryError(answer) ==
    IF answer = None THEN [err |-> "mcutil: query failed", icon |-> None]
    ELSE IF /\ Get(answer).Favicon # None
            /\ HasPrefix(Get(Get(answer).Favicon), pngPrefix)
    THEN LET decoded == DecodeString(TrimPrefix(Get(Get(answer).Favicon), pngPrefix))
         IN  IF decoded.err THEN [err |-> "base64: corrupt input", icon |-> None]
             ELSE [err |-> NoError, icon |-> Some(decoded.data)]
    ELSE [err |-> NoError, icon |-> defaultIconBytes]

\* Mutation of ServerIcon: a payload that does not decode keeps the default.
ServerIconDefaultOnCorrupt(answer) ==
    IF /\ answer # None
       /\ Get(answer).Favicon # None
       /\ HasPrefix(Get(Get(answer).Favicon), pngPrefix)
    THEN LET decoded == DecodeString(TrimPrefix(Get(Get(answer).Favicon), pngPrefix))
         IN  IF decoded.err THEN [err |-> NoError, icon |-> defaultIconBytes]
             ELSE [err |-> NoError, icon |-> Some(decoded.data)]
    ELSE [err |-> NoError, icon |-> defaultIconBytes]

\* Mutation of ServerIcon: the error of the decoder is dropped, and the bytes
\* it returned with the error (none) are the icon.
ServerIconEmptyOnCorrupt(answer) ==
    IF /\ answer # None
       /\ Get(answer).Favicon # None
       /\ HasPrefix(Get(Get(answer).Favicon), pngPrefix)
    THEN LET decoded == DecodeString(TrimPrefix(Get(Get(answer).Favicon), pngPrefix))
         IN  IF decoded.err THEN [err |-> NoError, icon |-> None]
             ELSE [err |-> NoError, icon |-> Some(decoded.data)]
    ELSE [err |-> NoError, icon |-> defaultIconBytes]

\* Mutation of ServerIcon: any data URL is taken for a PNG payload.
ServerIconAnyDataURL(answer) ==
    IF /\ answer # None
       /\ Get(answer).Favicon # None
       /\ HasPrefix(Get(Get(answer).Favicon), <<"d", "a", "t", "a", ":">>)
    THEN LET decoded == DecodeString(TrimPrefix(Get(Get(answer).Favicon), pngPrefix))
         IN  IF decoded.err THEN [err |-> "base64: corrupt input", icon |-> None]
             ELSE [err |-> NoError, icon |-> Some(decoded.data)]
    ELSE [err |-> NoError, icon |-> defaultIconBytes]

\* status.go 133-145: the icon chosen from the answer of mcutil.Status
\* (None when the query failed).
ServerIcon(answer) ==
    IF /\ answer # None
       /\ Get(answer).Favicon # None
       /\ HasPrefix(Get(Get(answer).Favicon), pngPrefix)
    THEN LET decoded == DecodeString(TrimPrefix(Get(Get(answer).Favicon), pngPrefix))
         IN  IF decoded.err THEN [err |-> "base64: corrupt input", icon |-> None]
             ELSE [err |-> NoError, icon |-> Some(decoded.data)]
    ELSE [err |-> NoError, icon |-> defaultIconBytes]

\* status.go 89-93, 111-115: json.Marshal of what the fetch returned; the
\* frame goes on to r.Set, or returns the encoder's error.
Marshalled(f, record) ==
    LET m == Marshal(record)
    IN  IF m.err
        THEN [f EXCEPT !.pc = "done", !.ret = ErrorReturn("json: unsupported")]
        ELSE [f EXCEPT !.pc = "Set", !.response = m.data]

\* A handler receives a request: GetJavaStatus, GetBedrockStatus or
\* GetServerIcon is called with (host, port).
CallFrom(h, addresses) ==
    /\ frame[h].pc \in {"idle", "done"}
    /\ h = "h2" => frame["h1"].pc \notin {"idle", "done"}
    /\ started < MaxCalls
    /\ \E op \in Ops, address \in addresses :
         LET host == address[1]
             port == address[2]
         IN  frame' = [frame EXCEPT ![h] =
                         [Idle EXCEPT !.pc = "lookup", !.id = started + 1, !.op = op,
                                      !.host = host, !.port = port,
                                      !.cacheKey = CacheKey(op, host, port)]]
    /\ started' = started + 1
    /\ UNCHANGED <<cache, blockedServers, returned, owner, offline>>

Call(h) == CallFrom(h, Addresses)

\* status.go 83-87, 105-109, 127-131: the lookup, and the return on a hit.
Lookup(h) ==
    LET f == frame[h] IN
    /\ f.pc = "lookup"
    /\ \E got \in GetCache(f.cacheKey) :
         frame' = [frame EXCEPT ![h] =
                     [f EXCEPT !.exists = got.exists, !.value = got.value,
                               !.ttl = got.ttl, !.err = got.err,
                               !.pc = AfterLookup(f.op, got.exists, got.err),
                               !.ret = IF AfterLookup(f.op, got.exists, got.err) = "done"
                                       THEN HitReturn(got.value, got.ttl, got.err)
                                       ELSE <<>>,
                               !.log = Append(@, Event("GetCache", <<f.cacheKey>>,
                                                       got.exists, got))]]
    /\ UNCHANGED <<cache, started, blockedServers, returned, owner, offline>>

\* status.go 155-157 and 203-252 (FetchJavaStatus), 135-145 (GetServerIcon):
\* mcutil.Status answers, and the caller builds its result from the answer.
StatusFrom(h, answers) ==
    LET f == frame[h] IN
    /\ f.pc = "Status"
    /\ \E answer \in {None} \cup {Some(a) : a \in answers} :
         LET queried == [f EXCEPT !.log = Append(@, Event("Status", <<f.host, f.port>>,
                                                          answer # None, answer))]
         IN  frame' = [frame EXCEPT ![h] =
               IF f.op = "icon"
               THEN LET chosen == ServerIcon(answer)
                    IN  IF chosen.err # NoError
                        THEN [queried EXCEPT !.pc = "done", !.ret = ErrorReturn(chosen.err)]
                        ELSE [queried EXCEPT !.pc = "Set", !.response = chosen.icon]
               ELSE IF answer = None
               THEN [queried EXCEPT !.pc = "StatusLegacy"]
               ELSE LET eulaBlocked == IsBlockedAddress(f.host)
                        asked == [queried EXCEPT !.log =
                                    Append(@, Event("IsBlockedAddress", <<f.host>>,
                                                    TRUE, eulaBlocked))]
                    IN  Marshalled(asked,
                                   JavaFromStatus(f.host, f.port, Get(answer), eulaBlocked))]
    /\ UNCHANGED <<cache, started, blockedServers, returned, owner, offline>>

Status(h) == StatusFrom(h, StatusAnswers)

\* status.go 158-200: mcutil.StatusLegacy answers; the offline record when it
\* fails too.
StatusLegacyFrom(h, answers) ==
    LET f == frame[h] IN
    /\ f.pc = "StatusLegacy"
    /\ \E answer \in {None} \cup {Some(a) : a \in answers} :
         LET eulaBlocked == IsBlockedAddress(f.host)
             asked == [f EXCEPT !.log =
                         @ \o << Event("StatusLegacy", <<f.host, f.port>>,
                                       answer # None, answer),
                                 Event("IsBlockedAddress", <<f.host>>, TRUE, eulaBlocked) >>]
         IN  frame' = [frame EXCEPT ![h] =
               Marshalled(asked,
                          IF answer = None
                          THEN Offline(f.host, f.port, eulaBlocked)
                          ELSE JavaFromLegacy(f.host, f.port, Get(answer), eulaBlocked))]
    /\ UNCHANGED <<cache, started, blockedServers, returned, owner, offline>>

StatusLegacy(h) == StatusLegacyFrom(h, StatusLegacyAnswers)

\* status.go 256-334: mcutil.StatusBedrock answers.
StatusBedrockFrom(h, answers) ==
    LET f == frame[h] IN
    /\ f.pc = "StatusBedrock"
    /\ \E answer \in {None} \cup {Some(a) : a \in answers} :
         LET eulaBlocked == IsBlockedAddress(f.host)
             asked == [f EXCEPT !.log =
                         @ \o << Event("StatusBedrock", <<f.host, f.port>>,
                                       answer # None, answer),
                                 Event("IsBlockedAddress", <<f.host>>, TRUE, eulaBlocked) >>]
         IN  frame' = [frame EXCEPT ![h] =
               Marshalled(asked,
                          IF answer = None
                          THEN Offline(f.host, f.port, eulaBlocked)
                          ELSE BedrockFromStatus(f.host, f.port, Get(answer), eulaBlocked))]
    /\ UNCHANGED <<cache, started, blockedServers, returned, owner, offline>>

StatusBedrock(h) == StatusBedrockFrom(h, StatusBedrockAnswers)

StatusOps == {"java", "bedrock"}

QueryClients == {"Status", "StatusLegacy", "StatusBedrock"}

\* The events of f's log that are calls to one of the named collaborators.
Calls(f, names) == SelectSeq(f.log, LAMBDA e : e.call \in names)

Queries(f) == Calls(f, QueryClients)

\* Every query client the operation has (two for the primary family, one
\* otherwise) was asked and failed.
AllQueriesFailed(f) ==
    LET q == Queries(f) IN
    /\ Len(q) = (IF f.op = "java" THEN 2 ELSE 1)
    /\ \A i \in 1..Len(q) : ~q[i].ok

\* Whether handler g is running a call for key that has missed the cache
\* and has not stored yet.
Missing(g, key) ==
    /\ frame[g].cacheKey = key
    /\ frame[g].pc \in {"Status", "StatusLegacy", "StatusBedrock", "Set"}

\* status.go 95-99, 117-121, 147-151: r.Set, and the return.
Store(h) ==
    LET f == frame[h] IN
    /\ f.pc = "Set"
    /\ \E ok \in BOOLEAN :
         LET ret == AfterSet(f.response, ok)
             peers == {g \in Handlers \ {h} : Missing(g, f.cacheKey)}
         IN  /\ frame' = [frame EXCEPT ![h] =
                   [f EXCEPT !.pc = "done",
                             !.ret = ret,
                             !.raced = IF ok /\ peers # {}
                                       THEN frame[CHOOSE g \in peers : TRUE].id ELSE 0,
                             !.log = Append(@, Event("Set",
                                         <<f.cacheKey, f.response, CacheDuration(f.op)>>,
                                         ok, <<>>))]]
             /\ cache' = IF ok THEN Set(f.cacheKey, f.response, CacheDuration(f.op))
                         ELSE cache
             /\ returned' = IF ok
                            THEN [k \in DOMAIN returned \cup {f.cacheKey} |->
                                    IF k = f.cacheKey THEN ret.value ELSE returned[k]]
                            ELSE returned
             /\ owner' = IF ok
                         THEN [k \in DOMAIN owner \cup {f.cacheKey} |->
                                 IF k = f.cacheKey THEN <<f.op, f.host, f.port>>
                                 ELSE owner[k]]
                         ELSE owner
             /\ offline' = IF ~ok THEN offline
                           ELSE IF f.op \in StatusOps /\ AllQueriesFailed(f)
                           THEN [k \in DOMAIN offline \cup {f.cacheKey} |->
                                   IF k = f.cacheKey THEN ret.value ELSE offline[k]]
                           ELSE [k \in DOMAIN offline \ {f.cacheKey} |-> offline[k]]
    /\ UNCHANGED <<started, blockedServers>>

\* The store's clock advances.
Tick ==
    /\ DOMAIN cache # {}
    /\ cache' = Expire
    /\ returned' = [k \in DOMAIN returned \cap DOMAIN Expire |-> returned[k]]
    /\ owner' = [k \in DOMAIN owner \cap DOMAIN Expire |-> owner[k]]
    /\ UNCHANGED <<frame, started, blockedServers, offline>>

Init ==
    /\ cache = [k \in {} |-> <<>>]
    /\ frame = [h \in Handlers |-> Idle]
    /\ started = 0
    /\ blockedServers \in SUBSET Hosts
    /\ returned = [k \in {} |-> <<>>]
    /\ owner = [k \in {} |-> <<>>]
    /\ offline = [k \in {} |-> <<>>]

Next ==
    \/ \E h \in Handlers : Call(h)
    \/ \E h \in Handlers : Lookup(h)
    \/ \E h \in Handlers : Status(h)
    \/ \E h \in Handlers : StatusLegacy(h)
    \/ \E h \in Handlers : StatusBedrock(h)
    \/ \E h \in Handlers : Store(h)
    \/ Tick

Spec == Init /\ [][Next]_vars

---------------------------------------------------------------------------
(* Vocabulary of the properties.                                           *)

\* What IsBlockedAddress answered the call, in order.
Lookups(f) ==
    [i \in 1..Len(Calls(f, {"IsBlockedAddress"})) |->
        Calls(f, {"IsBlockedAddress"})[i].result]

\* The call has returned to its caller.
Returned(f) == f.pc = "done"

\* The call missed the cache and returned a freshly computed result.
ReturnedFresh(f) == Returned(f) /\ ~f.exists /\ f.ret.err = NoError

\* The positions of the log at which the named collaborator was called.
At(f, name) == {i \in 1..Len(f.log) : f.log[i].call = name}

\* Every call of collaborator a in the log comes before every call of b.
Before(f, a, b) == \A i \in At(f, a), j \in At(f, b) : i < j

\* The bare offline record of (host, port), as JSON, the block list being
\* what it is.
OfflineJSON(host, port) ==
    JObj(<< <<"online", JBool(FALSE)>>,
            <<"host", JStr(host)>>,
            <<"port", JNum(port)>>,
            <<"eula_blocked", JBool(host \in blockedServers)>> >>)

---------------------------------------------------------------------------
(* C1. A call whose lookup reports a hit returns exactly the value and the *)
(* remaining TTL the store reported, and makes no other call: no query     *)
(* client is invoked and nothing is set.                                   *)

C1_HitReturnsCached ==
    \A h \in Handlers :
        LET f == frame[h] IN
        f.exists =>
            /\ Returned(f)
            /\ f.ret.value = f.log[1].result.value
            /\ f.ret.ttl = Some(f.log[1].result.ttl)
            /\ Len(f.log) = 1
            /\ f.log[1].call = "GetCache"

\* An icon resolution has returned the stored bytes on a hit.
C1_Witness ==
    \E h \in Handlers :
        /\ frame[h].op = "icon"
        /\ frame[h].exists
        /\ Returned(frame[h])
        /\ frame[h].ret.value # <<>>
        /\ frame[h].ret.ttl # None

---------------------------------------------------------------------------
(* C2. On a miss the primary family asks the modern client, then the       *)
(* legacy client, then synthesizes the offline record: the legacy client   *)
(* is asked only after the modern query of the same call failed, the       *)
(* offline record is built only after both failed, and no client is asked  *)
(* twice in one call; the second family asks its one client at most once.  *)

C2_QueryOrder ==
    \A h \in Handlers :
        LET f == frame[h]
            q == Queries(f)
        IN  /\ \A name \in QueryClients : Cardinality(At(f, name)) <= 1
            /\ Before(f, "GetCache", "Status")
            /\ Before(f, "Status", "StatusLegacy")
            /\ \A name \in QueryClients : Before(f, name, "Set")
            /\ f.op = "java" =>
                 /\ At(f, "StatusBedrock") = {}
                 /\ At(f, "StatusLegacy") # {} =>
                      /\ Len(q) = 2
                      /\ q[1].call = "Status" /\ ~q[1].ok
                 /\ (f.response # <<>> /\ JField(f.response, "online") = Some(JBool(FALSE))) =>
                      /\ Len(q) = 2
                      /\ q[1].call = "Status" /\ ~q[1].ok
                      /\ q[2].call = "StatusLegacy" /\ ~q[2].ok
            /\ f.op = "bedrock" =>
                 /\ At(f, "Status") = {} /\ At(f, "StatusLegacy") = {}
                 /\ (f.response # <<>> /\ JField(f.response, "online") = Some(JBool(FALSE))) =>
                      Len(q) = 1 /\ ~q[1].ok

\* A primary-family call went through both clients to the offline record,
\* and a second-family call asked its client.
C2_Witness ==
    /\ \E h \in Handlers :
         /\ frame[h].op = "java"
         /\ Returned(frame[h])
         /\ Len(Queries(frame[h])) = 2
         /\ frame[h].ret.value = OfflineJSON(frame[h].host, frame[h].port)
    /\ \E h \in Handlers :
         /\ frame[h].op = "bedrock"
         /\ Len(Queries(frame[h])) = 1

---------------------------------------------------------------------------
(* C3. A call that returns without error returns a TTL exactly when its    *)
(* result came from the cache.                                             *)

C3_TTLIffCached ==
    \A h \in Handlers :
        LET f == frame[h] IN
        (Returned(f) /\ f.ret.err = NoError) => ((f.ret.ttl # None) <=> f.exists)

\* One call was served from the cache and another computed its result.
C3_Witness ==
    /\ \E h \in Handlers :
         Returned(frame[h]) /\ frame[h].ret.err = NoError /\ frame[h].exists
    /\ \E h \in Handlers : ReturnedFresh(frame[h])

---------------------------------------------------------------------------
(* C4. While the entry a fresh resolution stored has not expired, a call   *)
(* for the same key that hits the cache returns what the latest fresh      *)
(* resolution of that key returned: in particular the next call after a    *)
(* fresh resolution returning V returns V.                                 *)

C4_HitEqualsFresh ==
    [][\A h \in Handlers :
         (/\ frame[h].pc = "lookup"
          /\ frame'[h].exists
          /\ frame[h].cacheKey \in DOMAIN returned)
         => frame'[h].ret.value = returned[frame[h].cacheKey]]_vars

\* The second call of the run, a status resolution, hit the cache and
\* returned what the first call had freshly returned for the key.
C4_Witness ==
    \E h \in Handlers :
        LET f == frame[h] IN
        /\ f.id = 2 /\ f.op \in StatusOps
        /\ Returned(f) /\ f.exists /\ f.ret.err = NoError
        /\ f.cacheKey \in DOMAIN returned
        /\ f.ret.value = returned[f.cacheKey]
        /\ f.ret.value # <<>>

---------------------------------------------------------------------------
(* C5. On a miss, a result is returned without error only after r.Set of   *)
(* exactly that result, under the call's key and with the operation's      *)
(* configured duration, succeeded; when r.Set fails the call returns the   *)
(* error and no result.                                                    *)

ConfiguredDuration(op) ==
    CASE op = "java" -> JavaCacheDuration
      [] op = "bedrock" -> BedrockCacheDuration
      [] op = "icon" -> IconCacheDuration

C5_FreshOnlyIfStored ==
    \A h \in Handlers :
        LET f == frame[h]
            sets == Calls(f, {"Set"})
        IN  /\ ReturnedFresh(f) =>
                 /\ Len(sets) = 1
                 /\ sets[1].ok
                 /\ sets[1].args = <<f.cacheKey, f.ret.value, ConfiguredDuration(f.op)>>
                 /\ f.log[Len(f.log)].call = "Set"
            /\ (Returned(f) /\ Len(sets) = 1 /\ ~sets[1].ok) =>
                 /\ f.ret.err # NoError
                 /\ f.ret.value = <<>>
                 /\ f.ret.ttl = None

\* One call returned the result it stored; another, whose queries all
\* failed, returned the error of r.Set.
C5_Witness ==
    /\ \E h \in Handlers : ReturnedFresh(frame[h])
    /\ \E h \in Handlers :
         LET f == frame[h] IN
         /\ Returned(f)
         /\ Len(Queries(f)) >= 1 /\ \A i \in 1..Len(Queries(f)) : ~Queries(f)[i].ok
         /\ Len(Calls(f, {"Set"})) = 1 /\ ~Calls(f, {"Set"})[1].ok
         /\ f.ret.err # NoError

---------------------------------------------------------------------------
(* C6. The failure of query clients is never the error of the call: a call *)
(* whose queries all failed goes on to r.Set and can only return the error *)
(* of r.Set; when r.Set succeeds it returns, with no error, the offline    *)
(* record (status) or the default bytes (icon).                            *)

C6_QueryFailureNotAnError ==
    \A h \in Handlers :
        LET f == frame[h]
            sets == Calls(f, {"Set"})
        IN  (Returned(f) /\ AllQueriesFailed(f)) =>
                /\ Len(sets) = 1
                /\ ~sets[1].ok => f.ret.err = "store: write failed"
                /\ sets[1].ok =>
                     /\ f.ret.err = NoError
                     /\ f.op \in StatusOps => f.ret.value = OfflineJSON(f.host, f.port)
                     /\ f.op = "icon" => f.ret.value = Some(<<137, 80, 78, 71>>)

\* An icon resolution whose query failed returned the default bytes while a
\* status resolution whose queries failed returned the offline record.
C6_Witness ==
    /\ \E h \in Handlers :
         LET f == frame[h] IN
         /\ f.op = "icon" /\ Returned(f) /\ AllQueriesFailed(f)
         /\ f.ret.err = NoError /\ f.ret.value = defaultIconBytes
    /\ \E h \in Handlers :
         LET f == frame[h] IN
         /\ f.op \in StatusOps /\ Returned(f) /\ AllQueriesFailed(f)
         /\ f.ret.err = NoError /\ f.ret.value = OfflineJSON(f.host, f.port)

---------------------------------------------------------------------------
(* C7. When the lookup reports an error and no hit, the call returns that  *)
(* error to its caller and queries nothing.                                *)

C7_ReadErrorSurfaced ==
    \A h \in Handlers :
        LET f == frame[h] IN
        (f.pc # "idle" /\ f.pc # "lookup" /\ ~f.exists /\ f.err # NoError) =>
            /\ Returned(f)
            /\ f.ret.err = f.err
            /\ Len(f.log) = 1

---------------------------------------------------------------------------
(* C8. Two calls for the same key that both miss the cache: h stored while *)
(* g had missed and not yet stored, then g stored, and both returned.      *)

Race(h, g) ==
    /\ h # g
    /\ Returned(frame[h]) /\ Returned(frame[g])
    /\ frame[h].raced # 0
    /\ frame[h].raced = frame[g].id
    /\ ReturnedFresh(frame[h]) /\ ReturnedFresh(frame[g])

\* The call asked a query client itself and stored its own result.
OwnQueryAndSet(f) ==
    /\ Len(Queries(f)) >= 1
    /\ Len(Calls(f, {"Set"})) = 1
    /\ Calls(f, {"Set"})[1].args[2] = f.ret.value

\* What the query clients answered the call, in order.
Answers(f) == [i \in 1..Len(Queries(f)) |-> Queries(f)[i].result]

---------------------------------------------------------------------------
(* C9. The address policy and the eula_blocked field.                      *)

(* C9 as claimed: every status resolution consults the address policy      *)
(* once, and the record it returns carries that lookup as eula_blocked.    *)
C9_ConsultedOncePerCall ==
    \A h \in Handlers :
        LET f == frame[h] IN
        (Returned(f) /\ f.op \in StatusOps /\ f.ret.err = NoError) =>
            /\ Len(Lookups(f)) = 1
            /\ JField(f.ret.value, "eula_blocked") = Some(JBool(Lookups(f)[1]))

(* C9 as amended: a status resolution that misses the cache consults the   *)
(* address policy once, after its queries, and the record it builds and    *)
(* returns carries that lookup as eula_blocked, online or offline; a       *)
(* resolution served from the cache does not consult the policy and        *)
(* returns the cached record with the eula_blocked it was stored with.     *)
C9_ConsultedOncePerMiss ==
    \A h \in Handlers :
        LET f == frame[h] IN
        f.op \in StatusOps =>
            /\ Len(Lookups(f)) <= 1
            /\ f.exists => Len(Lookups(f)) = 0
            /\ f.response # <<>> =>
                 /\ Len(Lookups(f)) = 1
                 /\ JField(f.response, "eula_blocked") = Some(JBool(Lookups(f)[1]))
                 /\ Lookups(f)[1] = (f.host \in blockedServers)
            /\ ReturnedFresh(f) => f.ret.value = f.response
            /\ (Returned(f) /\ f.exists) =>
                 JField(f.ret.value, "eula_blocked") = JField(f.log[1].result.value, "eula_blocked")

\* A resolution of a blocked host whose queries all failed consulted the
\* policy once and returned an offline record that reports the block.
C9_Witness ==
    \E h \in Handlers :
        LET f == frame[h] IN
        /\ ReturnedFresh(f) /\ f.op \in StatusOps
        /\ Lookups(f) = <<TRUE>>
        /\ JField(f.ret.value, "online") = Some(JBool(FALSE))
        /\ JField(f.ret.value, "eula_blocked") = Some(JBool(TRUE))

---------------------------------------------------------------------------
(* C10. An icon resolution that misses the cache and is answered a favicon *)
(* with the prefix "data:image/png;base64," whose remainder is not         *)
(* standard base64 returns the decode error and no bytes, and stores       *)
(* nothing; it never returns the default icon.                             *)

\* The modern client answered the call a PNG data URI that does not decode.
CorruptFavicon(f) ==
    /\ f.op = "icon"
    /\ Len(Queries(f)) = 1
    /\ Queries(f)[1].ok
    /\ Get(Queries(f)[1].result).Favicon # None
    /\ HasPrefix(Get(Get(Queries(f)[1].result).Favicon), pngPrefix)
    /\ DecodeString(TrimPrefix(Get(Get(Queries(f)[1].result).Favicon), pngPrefix)).err

C10_CorruptFaviconIsAnError ==
    \A h \in Handlers :
        LET f == frame[h] IN
        CorruptFavicon(f) =>
            /\ Returned(f)
            /\ f.ret.err = "base64: corrupt input"
            /\ f.ret.value = None
            /\ f.ret.ttl = None
            /\ Calls(f, {"Set"}) = <<>>

\* An icon resolution was answered "data:image/png;base64,QU!D" and failed.
C10_Witness ==
    \E h \in Handlers :
        LET f == frame[h] IN
        /\ CorruptFavicon(f)
        /\ Get(Queries(f)[1].result).Favicon = Some(pngPrefix \o <<"Q", "U", "!", "D">>)
        /\ Returned(f)
        /\ f.ret.err # NoError

---------------------------------------------------------------------------
(* One resolution on a cold cache, over every shape of upstream answer.    *)

Favicons ==
    { None,
      Some(<<>>),
      Some(pngPrefix \o <<"Q", "U", "J", "D">>),
      Some(pngPrefix \o <<"Q", "U", "!", "D">>),
      Some(jpegPrefix \o <<"Q", "U", "J", "D">>),
      Some(<<"Q", "U", "J", "D">>) }

Ada == [ID |-> "u1", NameRaw |-> "§aAda", NameClean |-> "Ada", NameHTML |-> "<b>Ada</b>"]

Bob == [ID |-> "u2", NameRaw |-> "Bob", NameClean |-> "Bob", NameHTML |-> "Bob"]

Samples == { None, Some(<<>>), Some(<<Ada>>), Some(<<Bob, Ada>>) }

Forge == [ID |-> "forge", Version |-> "14.23"]

JEI == [ID |-> "jei", Version |-> "4.16"]

ModInfos ==
    { None } \cup
    { Some([Type |-> "FML", Mods |-> mods]) : mods \in { <<>>, <<Forge>>, <<JEI, Forge>> } }

PlayerCounts == { [Online |-> 0, Max |-> 0], [Online |-> 5, Max |-> 20] }

\* Every shape of answer of mcutil.Status.
FetchStatusAnswers ==
    { [JavaRaw(favicon, sample, modInfo) EXCEPT !.Players.Online = counts.Online,
                                                !.Players.Max = counts.Max] :
      favicon \in Favicons, sample \in Samples, modInfo \in ModInfos,
      counts \in PlayerCounts }

\* Every shape of answer of mcutil.StatusLegacy.
FetchStatusLegacyAnswers ==
    { [Version |-> v, Players |-> counts, MOTD |-> motd] :
      v \in { None,
              Some([NameRaw |-> "§e1.6", NameClean |-> "1.6", NameHTML |-> "<b>1.6</b>",
                    Protocol |-> 78]) },
      counts \in PlayerCounts,
      motd \in { [Raw |-> "", Clean |-> "", HTML |-> ""],
                 [Raw |-> "§7Old", Clean |-> "Old", HTML |-> "<s>Old</s>"] } }

\* Every shape of answer of mcutil.StatusBedrock.
FetchStatusBedrockAnswers ==
    { BedrockRaw(version, protocolVersion, onlinePlayers, maxPlayers, motd, gamemode) :
      version \in {None, Some("1.19")},
      protocolVersion \in {None, Some(560)},
      onlinePlayers \in {None, Some(0), Some(7)},
      maxPlayers \in {None, Some(30)},
      motd \in {None, Some([Raw |-> "§2Be", Clean |-> "Be", HTML |-> "<b>Be</b>"])},
      gamemode \in {None, Some("Survival")} }

\* The first request of a run.
FetchCall == started = 0 /\ CallFrom("h1", Addresses)

FetchNext ==
    \/ FetchCall
    \/ Lookup("h1")
    \/ StatusFrom("h1", FetchStatusAnswers)
    \/ StatusLegacyFrom("h1", FetchStatusLegacyAnswers)
    \/ StatusBedrockFrom("h1", FetchStatusBedrockAnswers)
    \/ Store("h1")

SpecFetch == Init /\ [][FetchNext]_vars

---------------------------------------------------------------------------
(* C11: icon resolution keeps the default.                                 *)

\* The call asked mcutil.Status, and the answer gives no PNG data URL: the
\* query failed, or the answer has no favicon, or one with another prefix.
NoPngFavicon(f) ==
    /\ f.op = "icon"
    /\ Calls(f, {"Status"}) # <<>>
    /\ LET answer == Calls(f, {"Status"})[1].result
       IN  \/ answer = None
           \/ Get(answer).Favicon = None
           \/ ~HasPrefix(Get(Get(answer).Favicon), pngPrefix)

---------------------------------------------------------------------------
(* C12: the lazily allocated containers of the second family.              *)

\* The answer of the call's successful query, None when it has none.
Answer(f, client) ==
    LET q == Calls(f, {client})
    IN  IF q # <<>> /\ q[1].ok THEN q[1].result ELSE None

OptStr(o) == IF o = None THEN JNull ELSE JStr(Get(o))

OptNum(o) == IF o = None THEN JNull ELSE JNum(Get(o))

\* container is null when both upstream values are absent, and otherwise an
\* object whose two fields are the upstream values, null where absent.
LazyContainer(container, first, firstValue, second, secondValue) ==
    /\ (container # JNull) <=> (firstValue # JNull \/ secondValue # JNull)
    /\ container # JNull =>
          container = JObj(<< <<first, firstValue>>, <<second, secondValue>> >>)

\* C12: in the record the second family builds from a successful query, the
\* version container is non-null iff the upstream name or protocol is
\* present, and then holds exactly the upstream name and protocol (null where
\* absent); independently, the same for the players container with online
\* and max.
C12_LazyContainers ==
    \A h \in Handlers :
        LET f == frame[h]
            status == Get(Answer(f, "StatusBedrock"))
        IN  (f.op = "bedrock" /\ Answer(f, "StatusBedrock") # None) =>
              /\ JField(f.response, "version") # None
              /\ JField(f.response, "players") # None
              /\ LazyContainer(Get(JField(f.response, "version")),
                               "name", OptStr(status.Version),
                               "protocol", OptNum(status.ProtocolVersion))
              /\ LazyContainer(Get(JField(f.response, "players")),
                               "online", OptNum(status.OnlinePlayers),
                               "max", OptNum(status.MaxPlayers))

\* A record built from an answer with a protocol and no name, and with a
\* maximum and no online count, has been returned.
C12_Witness ==
    \E h \in Handlers :
        LET f == frame[h]
            status == Get(Answer(f, "StatusBedrock"))
        IN  /\ f.op = "bedrock"
            /\ Answer(f, "StatusBedrock") # None
            /\ status.Version = None /\ status.ProtocolVersion # None
            /\ status.OnlinePlayers = None /\ status.MaxPlayers # None
            /\ ReturnedFresh(f)
            /\ JField(f.ret.value, "version")
                 = Some(JObj(<< <<"name", JNull>>, <<"protocol", JNum(560)>> >>))
            /\ JField(f.ret.value, "players")
                 = Some(JObj(<< <<"online", JNull>>, <<"max", JNum(30)>> >>))

---------------------------------------------------------------------------
(* C13: the record of the legacy fallback.                                 *)

\* The modern query of the call failed and the legacy query succeeded.
LegacyFallback(f) ==
    /\ f.op = "java"
    /\ Calls(f, {"Status"}) # <<>>
    /\ Answer(f, "Status") = None
    /\ Answer(f, "StatusLegacy") # None

\* C13: a primary-family record built on the legacy fallback has a null
\* icon, an empty mods array and an empty players.list array, whatever the
\* legacy answer holds, and its version is non-null exactly when the legacy
\* answer carried a version.
C13_LegacyRecord ==
    \A h \in Handlers :
        LET f == frame[h]
            statusLegacy == Get(Answer(f, "StatusLegacy"))
            players == Get(JField(f.response, "players"))
        IN  LegacyFallback(f) =>
              /\ JField(f.response, "icon") = Some(JNull)
              /\ JField(f.response, "mods") = Some(JArr(<<>>))
              /\ JField(f.response, "players") # None
              /\ JField(players, "list") = Some(JArr(<<>>))
              /\ JField(f.response, "version") # None
              /\ (JField(f.response, "version") # Some(JNull))
                    <=> (statusLegacy.Version # None)

\* A legacy record built from an answer without a version has been returned.
C13_Witness ==
    \E h \in Handlers :
        LET f == frame[h]
        IN  /\ LegacyFallback(f)
            /\ Get(Answer(f, "StatusLegacy")).Version = None
            /\ Get(Answer(f, "StatusLegacy")).Players.Online = 5
            /\ ReturnedFresh(f)
            /\ JField(f.ret.value, "version") = Some(JNull)
            /\ JField(f.ret.value, "mods") = Some(JArr(<<>>))
            /\ JField(f.ret.value, "online") = Some(JBool(TRUE))

---------------------------------------------------------------------------
(* C14: the record of an offline server.                                   *)

FamilyKeys ==
    {"version", "players", "motd", "icon", "mods", "gamemode", "server_id", "edition"}

\* C14: when every query client of a status resolution has failed (modern
\* and legacy for the primary family, the single one for the second), the
\* record is the bare base record: exactly the keys online, host, port and
\* eula_blocked, with online false, the host and port of the call and the
\* answer of the address policy, and none of the family keys.
C14_OfflineIsBare ==
    \A h \in Handlers :
        LET f == frame[h]
        IN  (f.op \in StatusOps /\ AllQueriesFailed(f)) =>
              /\ JKeys(f.response) = <<"online", "host", "port", "eula_blocked">>
              /\ JField(f.response, "online") = Some(JBool(FALSE))
              /\ JField(f.response, "host") = Some(JStr(f.host))
              /\ JField(f.response, "port") = Some(JNum(f.port))
              /\ JField(f.response, "eula_blocked") = Some(JBool(Lookups(f)[1]))
              /\ Lookups(f) = <<f.host \in blockedServers>>
              /\ \A k \in FamilyKeys : JField(f.response, k) = None

\* The primary family has returned the bare record of a blocked host after
\* its two queries failed.
C14_Witness ==
    \E h \in Handlers :
        LET f == frame[h]
        IN  /\ f.op = "java"
            /\ AllQueriesFailed(f)
            /\ Len(Queries(f)) = 2
            /\ f.host \in blockedServers
            /\ ReturnedFresh(f)
            /\ f.ret.value = OfflineJSON(f.host, f.port)

---------------------------------------------------------------------------
(* C15: the lists of the modern answer.                                    *)

\* The entries of the upstream sample, none when there is no sample.
UpstreamSample(status) ==
    IF status.Players.Sample = None THEN <<>> ELSE Get(status.Players.Sample)

\* The upstream mods, none when there is no mod metadata.
UpstreamMods(status) ==
    IF status.ModInfo = None THEN <<>> ELSE Get(status.ModInfo).Mods

\* C15: in a primary-family record built from a successful modern query,
\* players.list and mods are arrays, never null; players.list has one
\* entry per entry of the upstream sample, in the same order, and is empty
\* when there is no sample; mods has one entry per upstream mod, in the same
\* order, and is empty when there is no mod metadata; players.online and
\* players.max are the upstream counts.
C15_ModernLists ==
    \A h \in Handlers :
        LET f == frame[h]
            status == Get(Answer(f, "Status"))
            players == Get(JField(f.response, "players"))
            sample == UpstreamSample(status)
            mods == UpstreamMods(status)
        IN  (f.op = "java" /\ Answer(f, "Status") # None) =>
              /\ JField(f.response, "players") # None
              /\ JField(players, "online") = Some(JNum(status.Players.Online))
              /\ JField(players, "max") = Some(JNum(status.Players.Max))
              /\ JField(players, "list") =
                   Some(JArr([i \in 1..Len(sample) |->
                               JObj(<< <<"uuid", JStr(sample[i].ID)>>,
                                       <<"name_raw", JStr(sample[i].NameRaw)>>,
                                       <<"name_clean", JStr(sample[i].NameClean)>>,
                                       <<"name_html", JStr(sample[i].NameHTML)>> >>)]))
              /\ JField(f.response, "mods") =
                   Some(JArr([i \in 1..Len(mods) |->
                               JObj(<< <<"name", JStr(mods[i].ID)>>,
                                       <<"version", JStr(mods[i].Version)>> >>)]))

\* A record built from an answer with no sample and no mod metadata has been
\* returned with two empty arrays.
C15_Witness ==
    \E h \in Handlers :
        LET f == frame[h]
            status == Get(Answer(f, "Status"))
        IN  /\ f.op = "java"
            /\ Answer(f, "Status") # None
            /\ status.Players.Sample = None
            /\ status.ModInfo = None
            /\ ReturnedFresh(f)
            /\ JField(f.ret.value, "mods") = Some(JArr(<<>>))
            /\ JField(Get(JField(f.ret.value, "players")), "list") = Some(JArr(<<>>))

---------------------------------------------------------------------------
(* C16: resolving an offline address again.  offline[key] is the record    *)
(* the previous resolution under key stored and returned when all its      *)
(* queries had failed.                                                     *)

\* Handler h returns in this step, without error, from the cache or after
\* all its queries failed.
ReturnsOfflineOrCached(h) ==
    /\ frame[h].pc # "done"
    /\ frame'[h].pc = "done"
    /\ frame'[h].op \in StatusOps
    /\ frame'[h].ret.err = NoError
    /\ frame'[h].exists \/ AllQueriesFailed(frame'[h])

\* C16: when the previous resolution of an address found the server offline,
\* a following resolution of the same address that is served from the cache,
\* or that misses the cache and finds the server offline again, returns the
\* same record, with online false and the same eula_blocked.
C16_OfflineTwice ==
    [][\A h \in Handlers :
          (ReturnsOfflineOrCached(h) /\ frame'[h].cacheKey \in DOMAIN offline) =>
             LET first == offline[frame'[h].cacheKey]
                 second == frame'[h].ret.value
             IN  /\ second = first
                 /\ JField(first, "online") = Some(JBool(FALSE))
                 /\ JField(second, "online") = Some(JBool(FALSE))
                 /\ JField(second, "eula_blocked") = JField(first, "eula_blocked")]_vars

\* Two resolutions of the same address have each missed the cache, found the
\* server offline, stored and returned the same record; neither stored while
\* the other was between its lookup and its set, so one looked up after the
\* other had stored and the entry had expired.
C16_Witness ==
    \E h, g \in Handlers :
        LET first == frame[h]
            second == frame[g]
        IN  /\ first.id = 1 /\ second.id = 2
            /\ first.op \in StatusOps
            /\ first.cacheKey = second.cacheKey
            /\ ReturnedFresh(first) /\ ReturnedFresh(second)
            /\ AllQueriesFailed(first) /\ AllQueriesFailed(second)
            /\ first.raced = 0 /\ second.raced = 0
            /\ first.err = NoError /\ second.err = NoError
            /\ second.ret.value = first.ret.value
            /\ second.ret.value = offline[second.cacheKey]
            /\ JField(second.ret.value, "online") = Some(JBool(FALSE))

---------------------------------------------------------------------------
(* C17: every call returns.  One handler serves its requests one after the *)
(* other, the store's clock running; the store and the query clients       *)
(* always answer: when the handler can take a step it eventually takes one. *)

\* Handler h runs the next step of its call.
Step(h) ==
    \/ Lookup(h)
    \/ Status(h)
    \/ StatusLegacy(h)
    \/ StatusBedrock(h)
    \/ Store(h)

LiveNext ==
    \/ Call("h1")
    \/ Step("h1")
    \/ Tick

LiveSpec == Init /\ [][LiveNext]_vars /\ WF_vars(Step("h1"))

\* The call of handler h has started and not returned.
Running(h) == frame[h].pc \notin {"idle", "done"}

\* The three ways a call ends: from the hit branch, with the remaining TTL;
\* with a fresh result; with an error and no result.
ReturnCached(f) == Returned(f) /\ f.exists /\ f.ret.ttl # None

ReturnFresh(f) == Returned(f) /\ ~f.exists /\ f.ret.ttl = None /\ f.ret.err = NoError

ReturnError(f) == Returned(f) /\ ~f.exists /\ f.ret.ttl = None /\ f.ret.err # NoError

\* The call has ended in exactly one of the three ways, and in a fresh result
\* only with an accepted set as the last thing it did.
Terminated(f) ==
    /\ Cardinality({t \in {"cached", "fresh", "error"} :
                      \/ t = "cached" /\ ReturnCached(f)
                      \/ t = "fresh" /\ ReturnFresh(f)
                      \/ t = "error" /\ ReturnError(f)}) = 1
    /\ ReturnFresh(f) =>
          /\ f.log # <<>>
          /\ f.log[Len(f.log)].call = "Set"
          /\ f.log[Len(f.log)].ok

\* C17: the store and the query clients always answering, every call that
\* has started eventually returns, in exactly one of the three terminal
\* states (cached, fresh, error), and in the fresh one only after its set.
C17_EveryCallReturns ==
    \A h \in Handlers : Running(h) ~> Terminated(frame[h])

\* A call has returned a fresh result by the longest path: a lookup, the
\* two queries of the primary family, and the set.
C17_Witness ==
    \E h \in Handlers :
        LET f == frame[h]
        IN  /\ Terminated(f) /\ ReturnFresh(f)
            /\ [i \in 1..Len(f.log) |-> f.log[i].call]
                 = <<"GetCache", "Status", "StatusLegacy", "IsBlockedAddress", "Set">>

---------------------------------------------------------------------------
(* Calls for several addresses, one after the other.  The hosts are chosen *)
(* so that keys built carelessly would collide: a host that ends like a    *)
(* port, hosts holding the separators '-' and ':', and a host that begins  *)
(* like a namespace.                                                       *)

KeyAddresses ==
    { << <<"m", "c">>, 12 >>,
      << <<"m", "c", "1">>, 2 >>,
      << <<"m", "c", "-", "1">>, 2 >>,
      << <<"i", "c", "o", "n", ":", "m", "c">>, 12 >> }

KeysNext ==
    \/ CallFrom("h1", KeyAddresses)
    \/ Lookup("h1")
    \/ Status("h1")
    \/ StatusLegacy("h1")
    \/ StatusBedrock("h1")
    \/ Store("h1")

SpecKeys == Init /\ [][KeysNext]_vars

---------------------------------------------------------------------------
(* C18: an operation touches the entry of its own namespace only.          *)

NamespaceOf(op) ==
    CASE op = "java" -> <<"j", "a", "v", "a", ":">>
      [] op = "bedrock" -> <<"b", "e", "d", "r", "o", "c", "k", ":">>
      [] op = "icon" -> <<"i", "c", "o", "n", ":">>

\* The entries stored by calls of another operation, or for another address,
\* than those of f.
ForeignEntries(f) == {k \in DOMAIN owner : owner[k] # <<f.op, f.host, f.port>>}

\* C18: whatever step a call takes, every key it has passed to the store is
\* one key of its own namespace, it has set at most once, every entry stored
\* by another operation or for another address is left as it was, and a
\* lookup is satisfied only by an entry its own operation stored for its own
\* address: a cached status never satisfies an icon lookup.
C18_OwnKeyOnly ==
    [][\A h \in Handlers :
          frame'[h] # frame[h] =>
             LET f == frame'[h]
                 passed == Calls(f, {"GetCache", "Set"})
             IN  /\ \A i \in 1..Len(passed) :
                       /\ HasPrefix(passed[i].args[1], NamespaceOf(f.op))
                       /\ passed[i].args[1] = passed[1].args[1]
                 /\ Len(Calls(f, {"Set"})) <= 1
                 /\ \A k \in ForeignEntries(f) :
                       /\ k \in DOMAIN cache'
                       /\ cache'[k] = cache[k]
                       /\ owner'[k] = owner[k]
                 /\ (f.exists /\ ~frame[h].exists) =>
                       /\ f.cacheKey \in DOMAIN owner
                       /\ owner[f.cacheKey] = <<f.op, f.host, f.port>>]_vars

\* With the status of an address cached, an icon resolution of the same
\* address has missed the cache, stored its own entry and left the status
\* entry in place.
C18_Witness ==
    \E h \in Handlers, k \in DOMAIN owner :
        LET f == frame[h]
        IN  /\ f.op = "icon"
            /\ ReturnedFresh(f)
            /\ f.log[1].call = "GetCache" /\ f.log[1].result.err = NoError
            /\ owner[k] = <<"java", f.host, f.port>>
            /\ k \in DOMAIN cache
            /\ JField(cache[k].value, "host") = Some(JStr(f.host))
            /\ f.cacheKey \in DOMAIN cache
            /\ f.cacheKey # k
            /\ owner[f.cacheKey] = <<"icon", f.host, f.port>>

---------------------------------------------------------------------------
(* C19: a decode failure stores nothing.                                   *)

\* Another handler's icon resolution under the key of h has failed to decode
\* its favicon, and the key has no entry.
FailedBefore(h) ==
    /\ frame[h].op = "icon"
    /\ frame[h].cacheKey \notin DOMAIN cache
    /\ \E g \in Handlers \ {h} :
          /\ CorruptFavicon(frame[g])
          /\ Returned(frame[g])
          /\ frame[g].cacheKey = frame[h].cacheKey

\* C19: the step in which an icon resolution finds that its favicon does not
\* decode ends the call with the error, without a set: the store, and with
\* it the icon entry of the key, is left as it was.  So an icon resolution of
\* the same address that looks up afterwards, the key having had no entry,
\* misses again and goes on to query upstream.
C19_DecodeFailureStoresNothing ==
    [][\A h \in Handlers :
          frame'[h] # frame[h] =>
             /\ CorruptFavicon(frame'[h]) =>
                   /\ Returned(frame'[h])
                   /\ frame'[h].ret.err # NoError
                   /\ Calls(frame'[h], {"Set"}) = <<>>
                   /\ cache' = cache
             /\ (FailedBefore(h) /\ frame[h].pc = "lookup") =>
                   /\ ~frame'[h].exists
                   /\ frame'[h].pc = "Status"
                   /\ frame'[h].cacheKey \notin DOMAIN cache']_vars

\* After a decode failure under a key without entry, a second icon
\* resolution of the same address has missed the cache and asked upstream.
C19_Witness ==
    \E h, g \in Handlers :
        LET first == frame[g]
            second == frame[h]
        IN  /\ h # g
            /\ CorruptFavicon(first) /\ Returned(first)
            /\ first.ret.err = "base64: corrupt input"
            /\ first.log[1].result.err = NoError
            /\ second.op = "icon"
            /\ second.cacheKey = first.cacheKey
            /\ Len(second.log) = 2
            /\ second.log[1].call = "GetCache" /\ ~second.log[1].ok
            /\ second.log[1].result.err = NoError
            /\ second.log[2].call = "Status"
            /\ second.cacheKey \notin DOMAIN cache
            /\ DOMAIN cache = {}

---------------------------------------------------------------------------
(* C20: the key is injective.                                              *)

\* C20: whenever the key of a call has an entry in the store, that entry was
\* stored by a call of the same operation for the same host and port: calls
\* that differ in namespace, host or port never share a key, so a call never
\* reads or overwrites the entry of another address or namespace, whatever
\* separators the host holds.
C20_KeyIsInjective ==
    \A h \in Handlers :
        LET f == frame[h]
        IN  (f.pc # "idle" /\ f.cacheKey \in DOMAIN owner) =>
               owner[f.cacheKey] = <<f.op, f.host, f.port>>

\* The icons of ("mc", 12) and ("mc1", 2), whose host and port concatenate
\* to the same text, are cached side by side, the second stored after a miss.
C20_Witness ==
    \E h \in Handlers :
        LET f == frame[h]
            other == CacheKey("icon", <<"m", "c">>, 12)
        IN  /\ f.op = "icon"
            /\ f.host = <<"m", "c", "1">> /\ f.port = 2
            /\ ReturnedFresh(f)
            /\ f.log[1].result.err = NoError
            /\ other \in DOMAIN cache
            /\ f.cacheKey \in DOMAIN cache
            /\ owner[other] = <<"icon", <<"m", "c">>, 12>>
            /\ owner[f.cacheKey] = <<"icon", f.host, f.port>>
            /\ Cardinality(DOMAIN cache) = 2

====
